---- MODULE Spec2Model ----
(***************************************************************************)
(* HyperRail: the expiry-enabled gift escrow contract (contracts/src/      *)
(* HyperRail.sol, second contract of the file) and the relayer's claim     *)
(* handler (backend/hyperrail-worker/src/gift.ts).                         *)
(*                                                                         *)
(* Every external call of the contract is one action.  The revert reason   *)
(* of a call is the first failing require of its function, computed by     *)
(* the ...Revert operators from the state the call meets; a call that      *)
(* reverts leaves the whole state as it was (EVM revert).  The contract    *)
(* keeps one flag, claimed, for both resolutions, so what tells a claimed  *)
(* entry from a refunded one is the event log, kept per claimId in         *)
(* events.  ERC20 allowances are taken as granted: a transferFrom fails    *)
(* only for lack of balance.                                               *)
(***************************************************************************)
EXTENDS Integers, FiniteSets, Sequences, TLC

\* ------------------------------------------------------------------ bounds
MaxAmount == 2          \* largest amount a call names
MaxTime == 3            \* block.timestamp ranges over 1..MaxTime
NumSecrets == 2         \* claim secrets 1..NumSecrets
StartBalance == 2       \* USDC minted to each user before the first call
NumRequests == 2        \* POST /api/claim requests 1..NumRequests
MaxInflight == 2        \* polls of one hook or page in flight together

\* --------------------------------------------------------------- constants
Users == {"alice", "bob"}
ZeroAddress == "0x0"
Relayer == "relayer"
Callers == Users \cup {Relayer}
Secrets == 1..NumSecrets
ZeroId == 0

\* keccak256(abi.encodePacked(claimSecret)): deterministic, never bytes32(0),
\* and free of collisions on the secrets in use.
keccak256_Identity(claimSecret) == claimSecret

keccak256(claimSecret) == 100 + ((claimSecret * 37) % 61)

ClaimIds == {keccak256(s) : s \in Secrets}

\* ---- the relayer (gift.ts)
ReqIds == 1..NumRequests

\* What a request body may carry.  The body is not JSON, or it is the JSON
\* value null, or it is a JSON object in which a claimSecret is absent, a
\* string that is not 0x + 64 hex digits, or a bytes32 value, and a
\* walletAddress is absent, a string that is not 0x + 40 hex digits, or an
\* address.
MissingSecret == 0
MalformedSecret == -1
MissingWallet == ""
MalformedWallet == "0xnothex"
Bodies ==
    {[json |-> FALSE, null |-> FALSE,
      claimSecret |-> MissingSecret, walletAddress |-> MissingWallet],
     [json |-> TRUE, null |-> TRUE,
      claimSecret |-> MissingSecret, walletAddress |-> MissingWallet]}
    \cup [json : {TRUE}, null : {FALSE},
          claimSecret : Secrets \cup {MissingSecret, MalformedSecret},
          walletAddress : Users \cup {ZeroAddress, MissingWallet, MalformedWallet}]

\* /^0x[0-9a-fA-F]{64}$/.test(claimSecret), /^0x[0-9a-fA-F]{40}$/.test(walletAddress)
isBytes32(claimSecret) == claimSecret \in Secrets
isAddress(walletAddress) == walletAddress \in Users \cup {ZeroAddress}

NoTx == [claimSecret |-> MissingSecret, to |-> MissingWallet, receipt |-> "none"]
IdleRequest ==
    [pc |-> "idle", claimSecret |-> MissingSecret, walletAddress |-> MissingWallet,
     status |-> 0, error |-> ""]
Response(status, error) ==
    [pc |-> "done", claimSecret |-> MissingSecret, walletAddress |-> MissingWallet,
     status |-> status, error |-> error]

\* How writeContract can end apart from the contract's own verdict: the
\* transaction goes out, the relayer cannot pay the gas, the RPC call fails
\* before the transaction is sent, or it fails after the node took it.
RpcOutcomes == {"sent", "insufficient funds", "timeout", "timeout after send"}

\* ---- the metadata store (D1 table gifts) and POST /api/gift
NoRow == [sender_address |-> "", amount |-> 0, created_at |-> 0]
MissingClaimId == -2

\* What a body of POST /api/gift may carry: not JSON, the JSON value null,
\* or an object whose claimId, senderAddress and amount are each present or
\* absent (amount 0 stands for an absent amount).
CreateBodies ==
    {[json |-> FALSE, null |-> FALSE, claimId |-> MissingClaimId,
      senderAddress |-> MissingWallet, amount |-> 0],
     [json |-> TRUE, null |-> TRUE, claimId |-> MissingClaimId,
      senderAddress |-> MissingWallet, amount |-> 0]}
    \cup [json : {TRUE}, null : {FALSE},
          claimId : ClaimIds \cup {MissingClaimId},
          senderAddress : Users \cup {MissingWallet},
          amount : 0..MaxAmount]

IdleCreate ==
    [pc |-> "idle", claimId |-> MissingClaimId, senderAddress |-> MissingWallet,
     amount |-> 0, status |-> 0, error |-> ""]
CreateResponse(claimId, status, error) ==
    [pc |-> "done", claimId |-> claimId, senderAddress |-> MissingWallet,
     amount |-> 0, status |-> status, error |-> error]

\* How the D1 binding itself can behave on a statement.
D1Outcomes == {"ok", "unavailable"}

\* ---- the frontend: useTransactionStatus, useGiftStatus, ClaimPage
\* The step lists of the two hooks; of a RouteStep the status and the
\* description are what the hooks change.
txDefaultSteps ==
    <<[status |-> "pending", description |-> "Preparing funds"],
      [status |-> "pending", description |-> "Transferring to destination"],
      [status |-> "pending", description |-> "Verifying arrival"],
      [status |-> "pending", description |-> "Finalizing"]>>
giftDefaultSteps ==
    <<[status |-> "pending", description |-> "Transaction sent to network"],
      [status |-> "pending", description |-> "Transferring to HyperEVM"],
      [status |-> "pending", description |-> "Relayer creating gift on-chain"],
      [status |-> "pending", description |-> "Share the claim link!"]>>

\* A hook before its effect has run: the useState initial values, no
\* interval, no poll in flight.  last is what the latest poll came back with,
\* completions the number of calls of onComplete so far.
TxHookInit ==
    [pc |-> "idle", status |-> "pending", steps |-> txDefaultSteps, error |-> "",
     interval |-> FALSE, isCancelled |-> FALSE, inflight |-> 0, last |-> "none",
     completions |-> 0]
GiftHookInit ==
    [pc |-> "idle", status |-> "pending_bridge", steps |-> giftDefaultSteps, error |-> "",
     interval |-> FALSE, isCancelled |-> FALSE, inflight |-> 0, last |-> "none",
     completions |-> 0]
PageInit ==
    [flowStatus |-> "loading", error |-> "", giftInfo |-> "none",
     inflight |-> 0, last |-> "none"]

\* What li.quest/v1/status can do to the worker's fetch: throw, answer with
\* an error status, or answer with a status and a substatus.
LifiOutcomes ==
    {[kind |-> "throws", status |-> "", substatus |-> ""],
     [kind |-> "error", status |-> "", substatus |-> ""]}
    \cup [kind : {"ok"},
          status : {"NOT_FOUND", "PENDING", "DONE", "FAILED", "INVALID"},
          substatus : {"", "WAIT_SOURCE_CONFIRMATIONS", "WAIT_DESTINATION_TRANSACTION"}]

\* handleStatus: the worker's answer to GET /api/status.
handleStatus(lifi) ==
    IF lifi.kind = "throws"
    THEN [status |-> 500, data |-> [error |-> "Worker Internal Error"]]
    ELSE IF lifi.kind = "error"
    THEN [status |-> 502, data |-> [error |-> "LI.FI status failed"]]
    ELSE [status |-> 200, data |-> [status |-> lifi.status, substatus |-> lifi.substatus]]

\* What a fetch of the frontend can end with: it throws (timeout, network
\* down), or it brings a response.
NetworkFailure == [kind |-> "network failure", status |-> 0, data |-> [error |-> ""]]
Fetched(response) ==
    [kind |-> "response", status |-> response.status, data |-> response.data]
TxFetches == {NetworkFailure} \cup {Fetched(handleStatus(lifi)) : lifi \in LifiOutcomes}

\* The answers GET /api/gift/:claimId gives the frontend: not found, a
\* database error, or the record, whose status the frontend reads.
GiftStatuses == {"pending_bridge", "creating_gift", "completed", "failed", "claimed"}
GiftFetches ==
    {NetworkFailure,
     Fetched([status |-> 404, data |-> [error |-> "Gift not found"]]),
     Fetched([status |-> 500, data |-> [error |-> "Database error"]]),
     Fetched([status |-> 200, data |-> [amount |-> 1, senderAddress |-> "alice"]])}
    \cup {Fetched([status |-> 200,
                   data |-> [amount |-> 1, senderAddress |-> "alice", status |-> st]]) :
             st \in GiftStatuses}

\* response.ok
ok(fetched) == fetched.status >= 200 /\ fetched.status <= 299

\* ---- the contract calls, where traced: the function, msg.sender, the
\* bytes32 argument as it was passed, the claimId the call is about, how it
\* ended, and a bit that flips with every call
NoCall ==
    [fn |-> "none", caller |-> "", input |-> 0, claimId |-> 0, revert |-> "ok", seq |-> 0]
Call(fn, caller, input, claimId, revert) ==
    [fn |-> fn, caller |-> caller, input |-> input, claimId |-> claimId,
     revert |-> revert, seq |-> 0]

NullGift == [amount |-> 0, sender |-> ZeroAddress, expiry |-> 0, claimed |-> FALSE]

\* The events of the gift lifecycle (the indexed claimId is the key of events).
GiftCreated(sender, amount, expiry) ==
    [name |-> "GiftCreated", who |-> sender, amount |-> amount, expiry |-> expiry]
GiftClaimed(recipient, amount) ==
    [name |-> "GiftClaimed", who |-> recipient, amount |-> amount, expiry |-> 0]
GiftRefunded(sender, amount) ==
    [name |-> "GiftRefunded", who |-> sender, amount |-> amount, expiry |-> 0]

VARIABLES
    gifts,              \* mapping(bytes32 => Gift)
    usdcBalance,        \* USDC (ERC20) balance of each user
    contractBalance,    \* usdc.balanceOf(address(this))
    hyperCoreBalances,  \* mapping(address => uint256), simulated HyperCore
    now,                \* block.timestamp
    events,             \* per claimId, the GiftCreated / GiftClaimed /
                        \* GiftRefunded events emitted so far, in order
    env,                \* GiftEnv: which of the relayer's settings are set
    requests,           \* per request of POST /api/claim: where handleClaim
                        \* stands and what it has answered
    txs,                \* per request, the claim transaction it broadcast
    ledgerCalls,        \* per secret, how often handleClaim has called
                        \* writeContract(claim) for it
    db,                 \* the D1 table gifts, by claim_id
    creates,            \* per request of POST /api/gift: where
                        \* handleCreateGift stands and what it has answered
    txHook,             \* state of useTransactionStatus
    giftHook,           \* state of useGiftStatus
    page,               \* state of ClaimPage
    version,            \* which contract of HyperRail.sol is deployed
    bridgeGifts,        \* bridge-enabled contract: mapping gifts
    claimed,            \* bridge-enabled contract: mapping claimed
    totalGiftedAmount,  \* bridge-enabled contract: totalGiftedAmount
    lastCall            \* the latest call made to the contract and how it
                        \* ended, where calls are traced

ledgerVars == <<gifts, usdcBalance, contractBalance, hyperCoreBalances, now, events>>
relayVars == <<env, requests, txs, ledgerCalls>>
storeVars == <<db, creates>>
clientVars == <<txHook, giftHook, page>>
bridgeVars == <<version, bridgeGifts, claimed, totalGiftedAmount, lastCall>>
otherVars == <<storeVars, clientVars, bridgeVars>>
offLedgerVars == <<relayVars, otherVars>>
vars == <<gifts, usdcBalance, contractBalance, hyperCoreBalances, now, events,
          env, requests, txs, ledgerCalls, db, creates, txHook, giftHook, page,
          version, bridgeGifts, claimed, totalGiftedAmount, lastCall>>

\* ------------------------------------------------------- revert conditions
\* The first failing require of each function, or "ok".

depositRevert(caller, recipient, amount) ==
    IF amount = 0 THEN "zero amount"
    ELSE IF recipient = ZeroAddress THEN "invalid recipient"
    ELSE IF usdcBalance[caller] < amount THEN "insufficient balance"
    ELSE "ok"

createGiftRevert_AllowsResolved(caller, claimId, amount, expiry) ==
    IF claimId = ZeroId THEN "invalid claimId"
    ELSE IF amount = 0 THEN "zero amount"
    ELSE IF gifts[claimId].amount # 0 /\ ~gifts[claimId].claimed THEN "gift exists"
    ELSE IF ~(expiry = 0 \/ expiry > now) THEN "invalid expiry"
    ELSE IF usdcBalance[caller] < amount THEN "insufficient balance"
    ELSE "ok"

createGiftRevert_ExpiryAtNow(caller, claimId, amount, expiry) ==
    IF claimId = ZeroId THEN "invalid claimId"
    ELSE IF amount = 0 THEN "zero amount"
    ELSE IF gifts[claimId].amount # 0 THEN "gift exists"
    ELSE IF ~(expiry = 0 \/ expiry >= now) THEN "invalid expiry"
    ELSE IF usdcBalance[caller] < amount THEN "insufficient balance"
    ELSE "ok"

createGiftRevert(caller, claimId, amount, expiry) ==
    IF claimId = ZeroId THEN "invalid claimId"
    ELSE IF amount = 0 THEN "zero amount"
    ELSE IF gifts[claimId].amount # 0 THEN "gift exists"
    ELSE IF ~(expiry = 0 \/ expiry > now) THEN "invalid expiry"
    ELSE IF usdcBalance[caller] < amount THEN "insufficient balance"
    ELSE "ok"

claimRevert_NoClaimedCheck(claimSecret, walletAddress) ==
    LET gift == gifts[keccak256(claimSecret)] IN
    IF walletAddress = ZeroAddress THEN "invalid wallet"
    ELSE IF ~(gift.amount > 0) THEN "gift not found"
    ELSE IF ~(gift.expiry = 0 \/ now <= gift.expiry) THEN "expired"
    ELSE "ok"

claimRevert_NoExpiryCheck(claimSecret, walletAddress) ==
    LET gift == gifts[keccak256(claimSecret)] IN
    IF walletAddress = ZeroAddress THEN "invalid wallet"
    ELSE IF ~(gift.amount > 0) THEN "gift not found"
    ELSE IF gift.claimed THEN "already claimed"
    ELSE "ok"

claimRevert_ExpiryFirst(claimSecret, walletAddress) ==
    LET gift == gifts[keccak256(claimSecret)] IN
    IF walletAddress = ZeroAddress THEN "invalid wallet"
    ELSE IF ~(gift.amount > 0) THEN "gift not found"
    ELSE IF ~(gift.expiry = 0 \/ now <= gift.expiry) THEN "expired"
    ELSE IF gift.claimed THEN "already claimed"
    ELSE "ok"

claimRevert_NoNeverExpires(claimSecret, walletAddress) ==
    LET gift == gifts[keccak256(claimSecret)] IN
    IF walletAddress = ZeroAddress THEN "invalid wallet"
    ELSE IF ~(gift.amount > 0) THEN "gift not found"
    ELSE IF gift.claimed THEN "already claimed"
    ELSE IF ~(now <= gift.expiry) THEN "expired"
    ELSE "ok"

claimRevert_StrictlyBeforeExpiry(claimSecret, walletAddress) ==
    LET gift == gifts[keccak256(claimSecret)] IN
    IF walletAddress = ZeroAddress THEN "invalid wallet"
    ELSE IF ~(gift.amount > 0) THEN "gift not found"
    ELSE IF gift.claimed THEN "already claimed"
    ELSE IF ~(gift.expiry = 0 \/ now < gift.expiry) THEN "expired"
    ELSE "ok"

claimRevert(claimSecret, walletAddress) ==
    LET gift == gifts[keccak256(claimSecret)] IN
    IF walletAddress = ZeroAddress THEN "invalid wallet"
    ELSE IF ~(gift.amount > 0) THEN "gift not found"
    ELSE IF gift.claimed THEN "already claimed"
    ELSE IF ~(gift.expiry = 0 \/ now <= gift.expiry) THEN "expired"
    ELSE "ok"

\* What refund sends back: usdc.safeTransfer(msg.sender, gift.amount).
refundTransfer_Double(claimId) == 2 * gifts[claimId].amount

refundTransfer(claimId) == gifts[claimId].amount

refundRevert_NoClaimedCheck(caller, claimId) ==
    LET gift == gifts[claimId] IN
    IF ~(gift.amount > 0) THEN "gift not found"
    ELSE IF gift.sender # caller THEN "not sender"
    ELSE IF ~(gift.expiry > 0) THEN "no expiry set"
    ELSE IF ~(now > gift.expiry) THEN "not expired"
    ELSE "ok"

refundRevert_AtExpiry(caller, claimId) ==
    LET gift == gifts[claimId] IN
    IF ~(gift.amount > 0) THEN "gift not found"
    ELSE IF gift.claimed THEN "already claimed"
    ELSE IF gift.sender # caller THEN "not sender"
    ELSE IF ~(gift.expiry > 0) THEN "no expiry set"
    ELSE IF ~(now >= gift.expiry) THEN "not expired"
    ELSE IF contractBalance < refundTransfer(claimId) THEN "insufficient balance"
    ELSE "ok"

refundRevert_SenderFirst(caller, claimId) ==
    LET gift == gifts[claimId] IN
    IF ~(gift.amount > 0) THEN "gift not found"
    ELSE IF gift.sender # caller THEN "not sender"
    ELSE IF gift.claimed THEN "already claimed"
    ELSE IF ~(gift.expiry > 0) THEN "no expiry set"
    ELSE IF ~(now > gift.expiry) THEN "not expired"
    ELSE IF contractBalance < refundTransfer(claimId) THEN "insufficient balance"
    ELSE "ok"

refundRevert(caller, claimId) ==
    LET gift == gifts[claimId] IN
    IF ~(gift.amount > 0) THEN "gift not found"
    ELSE IF gift.claimed THEN "already claimed"
    ELSE IF gift.sender # caller THEN "not sender"
    ELSE IF ~(gift.expiry > 0) THEN "no expiry set"
    ELSE IF ~(now > gift.expiry) THEN "not expired"
    ELSE IF contractBalance < refundTransfer(claimId) THEN "insufficient balance"
    ELSE "ok"

\* The catch block of handleClaim: the answer for an error message.
claimErrorResponse(message) ==
    IF message = "gift not found" THEN Response(404, "Gift not found or already claimed")
    ELSE IF message = "already claimed" THEN Response(409, "Gift already claimed")
    ELSE IF message = "insufficient funds" THEN Response(503, "Relayer out of gas funds")
    ELSE Response(500, "Claim failed")

\* The checks of handleClaim before the ledger is called: the rejection, or
\* the request ready for the call.  Destructuring the body stands outside
\* every try of handleClaim, so the body null makes it throw a TypeError;
\* the router answers an exception of a handler with 500.
claimValidation(body) ==
    IF ~body.json THEN Response(400, "Invalid JSON body")
    ELSE IF body.null THEN Response(500, "Internal Server Error")
    ELSE IF body.claimSecret = MissingSecret \/ body.walletAddress = MissingWallet
         THEN Response(400, "Missing required fields: claimSecret, walletAddress")
    ELSE IF ~isBytes32(body.claimSecret)
         THEN Response(400, "Invalid claimSecret format (expected bytes32)")
    ELSE IF ~isAddress(body.walletAddress)
         THEN Response(400, "Invalid walletAddress format")
    ELSE IF ~env.RELAYER_PRIVATE_KEY \/ ~env.GIFT_CONTRACT
         THEN Response(503, "Relayer not configured")
    ELSE [pc |-> "calling", claimSecret |-> body.claimSecret,
          walletAddress |-> body.walletAddress, status |-> 0, error |-> ""]

\* ------------------------------------- the bridge-enabled contract: reverts
\* The first failing require (or failing arithmetic or transfer) of each
\* function of the bridge-enabled HyperRail, or "ok".
bridgeCreateGiftRevert(caller, claimId, amount) ==
    IF bridgeGifts[claimId] # 0 THEN "exists"
    ELSE IF ~(amount > 0) THEN "zero"
    ELSE IF usdcBalance[caller] < amount THEN "insufficient balance"
    ELSE "ok"

createGiftFromBridgeRevert_NoDepositCheck(claimId, amount) ==
    IF bridgeGifts[claimId] # 0 THEN "exists"
    ELSE IF ~(amount > 0) THEN "zero"
    ELSE "ok"

createGiftFromBridgeRevert(claimId, amount) ==
    IF bridgeGifts[claimId] # 0 THEN "exists"
    ELSE IF ~(amount > 0) THEN "zero"
    ELSE IF contractBalance < totalGiftedAmount THEN "panic: arithmetic underflow"
    ELSE IF ~(contractBalance - totalGiftedAmount >= amount) THEN "insufficient deposit"
    ELSE "ok"

bridgeClaimRevert_NoClaimedCheck(claimSecret, to) ==
    LET claimId == keccak256(claimSecret) IN
    IF ~(bridgeGifts[claimId] > 0) THEN "not found"
    ELSE IF totalGiftedAmount < bridgeGifts[claimId] THEN "panic: arithmetic underflow"
    ELSE IF contractBalance < bridgeGifts[claimId] THEN "insufficient balance"
    ELSE "ok"

bridgeClaimRevert(claimSecret, to) ==
    LET claimId == keccak256(claimSecret) IN
    IF ~(bridgeGifts[claimId] > 0) THEN "not found"
    ELSE IF claimed[claimId] THEN "already claimed"
    ELSE IF totalGiftedAmount < bridgeGifts[claimId] THEN "panic: arithmetic underflow"
    ELSE IF contractBalance < bridgeGifts[claimId] THEN "insufficient balance"
    ELSE "ok"

\* ------------------------------------------------------ the metadata store
\* The checks of handleCreateGift before the INSERT: the rejection, or the
\* request ready for it.  As in handleClaim, the body null makes the
\* destructuring throw.
createValidation(body) ==
    IF ~body.json THEN CreateResponse(MissingClaimId, 400, "Invalid JSON body")
    ELSE IF body.null THEN CreateResponse(MissingClaimId, 500, "Internal Server Error")
    ELSE IF body.claimId = MissingClaimId \/ body.senderAddress = MissingWallet
            \/ body.amount = 0
         THEN CreateResponse(MissingClaimId, 400,
                             "Missing required fields: claimId, senderAddress, amount")
    ELSE [pc |-> "inserting", claimId |-> body.claimId,
          senderAddress |-> body.senderAddress, amount |-> body.amount,
          status |-> 0, error |-> ""]

\* INSERT INTO gifts (claim_id, ...): the error D1 raises, or "ok".  claim_id
\* is the key of the table, so a second row for it is refused.
insertError(claimId, d1) ==
    IF d1 = "unavailable" THEN "D1_ERROR: network connection lost"
    ELSE IF db[claimId] # NoRow THEN "UNIQUE constraint failed: gifts.claim_id"
    ELSE "ok"

\* The catch block of handleCreateGift.
createErrorResponse_UniqueIsSuccess(claimId, message) ==
    IF message = "UNIQUE constraint failed: gifts.claim_id"
    THEN CreateResponse(claimId, 200, "")
    ELSE CreateResponse(claimId, 500, "Database error")

createErrorResponse(claimId, message) ==
    IF message = "UNIQUE constraint failed: gifts.claim_id"
    THEN CreateResponse(claimId, 409, "Gift already exists")
    ELSE CreateResponse(claimId, 500, "Database error")

\* handleGetGift: the answer to GET /api/gift/:claimId.
handleGetGift(claimId, d1) ==
    IF d1 = "unavailable"
    THEN [status |-> 500, data |-> [error |-> "Database error"]]
    ELSE IF db[claimId] = NoRow
    THEN [status |-> 404, data |-> [error |-> "Gift not found"]]
    ELSE [status |-> 200,
          data |-> [claimId |-> claimId,
                    senderAddress |-> db[claimId].sender_address,
                    amount |-> db[claimId].amount,
                    createdAt |-> db[claimId].created_at]]

\* data.name as JavaScript reads it: undefined for a property not there.
field(data, name) == IF name \in DOMAIN data THEN data[name] ELSE "undefined"

\* --------------------------------------------------------- view functions
getGiftStatus_IgnoresExpiry(claimId) ==
    LET gift == gifts[claimId]
        exists == gift.amount > 0 IN
    [exists |-> exists,
     claimable |-> exists /\ ~gift.claimed,
     amount |-> gift.amount]

getGiftStatus(claimId) ==
    LET gift == gifts[claimId]
        exists == gift.amount > 0 IN
    [exists |-> exists,
     claimable |-> exists /\ ~gift.claimed /\ (gift.expiry = 0 \/ now <= gift.expiry),
     amount |-> gift.amount]

getContractBalance == contractBalance

\* ------------------------------------------------------------------ state
LedgerInit ==
    /\ gifts = [c \in ClaimIds |-> NullGift]
    /\ usdcBalance = [u \in Callers |-> IF u \in Users THEN StartBalance ELSE 0]
    /\ contractBalance = 0
    /\ hyperCoreBalances = [u \in Users |-> 0]
    /\ now = 1
    /\ events = [c \in ClaimIds |-> <<>>]

RelayInit ==
    /\ requests = [r \in ReqIds |-> IdleRequest]
    /\ txs = [r \in ReqIds |-> NoTx]
    /\ ledgerCalls = [s \in Secrets |-> 0]

\* Nothing stored yet, no request of POST /api/gift made.
StoreInit ==
    /\ db = [c \in ClaimIds |-> NoRow]
    /\ creates = [r \in ReqIds |-> IdleCreate]

\* The hooks and the page as their useState calls leave them.
ClientInit ==
    /\ txHook = TxHookInit
    /\ giftHook = GiftHookInit
    /\ page = PageInit

\* The expiry-enabled contract is the one deployed; the storage of the
\* bridge-enabled one is empty.
BridgeInit ==
    /\ version = "expiry"
    /\ bridgeGifts = [c \in ClaimIds |-> 0]
    /\ claimed = [c \in ClaimIds |-> FALSE]
    /\ totalGiftedAmount = 0
    /\ lastCall = NoCall

Init ==
    /\ LedgerInit
    /\ RelayInit
    /\ StoreInit
    /\ ClientInit
    /\ BridgeInit
    /\ env = [RELAYER_PRIVATE_KEY |-> TRUE, GIFT_CONTRACT |-> TRUE]

\* ---------------------------------------------------------------- actions
depositToSelf(caller, amount) ==
    LET r == depositRevert(caller, caller, amount) IN
    /\ IF r = "ok"
       THEN /\ usdcBalance' = [usdcBalance EXCEPT ![caller] = @ - amount]
            /\ contractBalance' = contractBalance + amount
            /\ hyperCoreBalances' = [hyperCoreBalances EXCEPT ![caller] = @ + amount]
       ELSE UNCHANGED <<usdcBalance, contractBalance, hyperCoreBalances>>
    /\ UNCHANGED <<gifts, now, events>>

depositToAddress(caller, recipient, amount) ==
    LET r == depositRevert(caller, recipient, amount) IN
    /\ IF r = "ok"
       THEN /\ usdcBalance' = [usdcBalance EXCEPT ![caller] = @ - amount]
            /\ contractBalance' = contractBalance + amount
            /\ hyperCoreBalances' = [hyperCoreBalances EXCEPT ![recipient] = @ + amount]
       ELSE UNCHANGED <<usdcBalance, contractBalance, hyperCoreBalances>>
    /\ UNCHANGED <<gifts, now, events>>

createGift(caller, claimId, amount, expiry) ==
    LET r == createGiftRevert(caller, claimId, amount, expiry) IN
    /\ IF r = "ok"
       THEN /\ usdcBalance' = [usdcBalance EXCEPT ![caller] = @ - amount]
            /\ contractBalance' = contractBalance + amount
            /\ gifts' = [gifts EXCEPT ![claimId] =
                            [amount |-> amount, sender |-> caller,
                             expiry |-> expiry, claimed |-> FALSE]]
            /\ events' = [events EXCEPT ![claimId] = Append(@, GiftCreated(caller, amount, expiry))]
       ELSE UNCHANGED <<usdcBalance, contractBalance, gifts, events>>
    /\ UNCHANGED <<hyperCoreBalances, now>>

claim_CreditsCaller(caller, claimSecret, walletAddress) ==
    LET r == claimRevert(claimSecret, walletAddress)
        claimId == keccak256(claimSecret) IN
    /\ IF r = "ok"
       THEN /\ gifts' = [gifts EXCEPT ![claimId].claimed = TRUE]
            /\ hyperCoreBalances' =
                  [hyperCoreBalances EXCEPT ![caller] = @ + gifts[claimId].amount]
            /\ events' = [events EXCEPT ![claimId] =
                  Append(@, GiftClaimed(walletAddress, gifts[claimId].amount))]
       ELSE UNCHANGED <<gifts, hyperCoreBalances, events>>
    /\ UNCHANGED <<usdcBalance, contractBalance, now>>

claim_PaysOut(caller, claimSecret, walletAddress) ==
    LET r == claimRevert(claimSecret, walletAddress)
        claimId == keccak256(claimSecret) IN
    /\ IF r = "ok"
       THEN /\ gifts' = [gifts EXCEPT ![claimId].claimed = TRUE]
            /\ hyperCoreBalances' =
                  [hyperCoreBalances EXCEPT ![walletAddress] = @ + gifts[claimId].amount]
            /\ contractBalance' = contractBalance - gifts[claimId].amount
            /\ events' = [events EXCEPT ![claimId] =
                  Append(@, GiftClaimed(walletAddress, gifts[claimId].amount))]
       ELSE UNCHANGED <<gifts, hyperCoreBalances, contractBalance, events>>
    /\ UNCHANGED <<usdcBalance, now>>

claim_DeletesEntry(caller, claimSecret, walletAddress) ==
    LET r == claimRevert(claimSecret, walletAddress)
        claimId == keccak256(claimSecret) IN
    /\ IF r = "ok"
       THEN /\ gifts' = [gifts EXCEPT ![claimId] = NullGift]
            /\ hyperCoreBalances' =
                  [hyperCoreBalances EXCEPT ![walletAddress] = @ + gifts[claimId].amount]
            /\ events' = [events EXCEPT ![claimId] =
                  Append(@, GiftClaimed(walletAddress, gifts[claimId].amount))]
       ELSE UNCHANGED <<gifts, hyperCoreBalances, events>>
    /\ UNCHANGED <<usdcBalance, contractBalance, now>>

claim_ClaimsAll(caller, claimSecret, walletAddress) ==
    LET r == claimRevert(claimSecret, walletAddress)
        claimId == keccak256(claimSecret) IN
    /\ IF r = "ok"
       THEN /\ gifts' = [c \in ClaimIds |-> [gifts[c] EXCEPT !.claimed = TRUE]]
            /\ hyperCoreBalances' =
                  [hyperCoreBalances EXCEPT ![walletAddress] = @ + gifts[claimId].amount]
            /\ events' = [events EXCEPT ![claimId] =
                  Append(@, GiftClaimed(walletAddress, gifts[claimId].amount))]
       ELSE UNCHANGED <<gifts, hyperCoreBalances, events>>
    /\ UNCHANGED <<usdcBalance, contractBalance, now>>

claim(caller, claimSecret, walletAddress) ==
    LET r == claimRevert(claimSecret, walletAddress)
        claimId == keccak256(claimSecret) IN
    /\ IF r = "ok"
       THEN /\ gifts' = [gifts EXCEPT ![claimId].claimed = TRUE]
            /\ hyperCoreBalances' =
                  [hyperCoreBalances EXCEPT ![walletAddress] = @ + gifts[claimId].amount]
            /\ events' = [events EXCEPT ![claimId] =
                  Append(@, GiftClaimed(walletAddress, gifts[claimId].amount))]
       ELSE UNCHANGED <<gifts, hyperCoreBalances, events>>
    /\ UNCHANGED <<usdcBalance, contractBalance, now>>

refund_ToHyperCore(caller, claimId) ==
    LET r == refundRevert(caller, claimId) IN
    /\ IF r = "ok"
       THEN /\ gifts' = [gifts EXCEPT ![claimId].claimed = TRUE]
            /\ hyperCoreBalances' =
                  [hyperCoreBalances EXCEPT ![caller] = @ + refundTransfer(claimId)]
            /\ contractBalance' = contractBalance - refundTransfer(claimId)
            /\ events' = [events EXCEPT ![claimId] =
                  Append(@, GiftRefunded(caller, gifts[claimId].amount))]
       ELSE UNCHANGED <<gifts, hyperCoreBalances, contractBalance, events>>
    /\ UNCHANGED <<usdcBalance, now>>

refund(caller, claimId) ==
    LET r == refundRevert(caller, claimId) IN
    /\ IF r = "ok"
       THEN /\ gifts' = [gifts EXCEPT ![claimId].claimed = TRUE]
            /\ usdcBalance' = [usdcBalance EXCEPT ![caller] = @ + refundTransfer(claimId)]
            /\ contractBalance' = contractBalance - refundTransfer(claimId)
            /\ events' = [events EXCEPT ![claimId] =
                  Append(@, GiftRefunded(caller, gifts[claimId].amount))]
       ELSE UNCHANGED <<gifts, usdcBalance, contractBalance, events>>
    /\ UNCHANGED <<hyperCoreBalances, now>>

\* A later block: block.timestamp grows (vm.warp in the tests).
Tick ==
    /\ now < MaxTime
    /\ now' = now + 1
    /\ UNCHANGED <<gifts, usdcBalance, contractBalance, hyperCoreBalances, events>>

\* ---- the contract on its own, called by the users
Next ==
    \/ \E u \in Users, a \in 0..MaxAmount :
          depositToSelf(u, a) /\ UNCHANGED offLedgerVars
    \/ \E u \in Users, r \in Users \cup {ZeroAddress}, a \in 0..MaxAmount :
          depositToAddress(u, r, a) /\ UNCHANGED offLedgerVars
    \/ \E u \in Users, c \in ClaimIds \cup {ZeroId}, a \in 0..MaxAmount, e \in 0..MaxTime :
          createGift(u, c, a, e) /\ UNCHANGED offLedgerVars
    \/ \E u \in Users, s \in Secrets, w \in Users \cup {ZeroAddress} :
          claim(u, s, w) /\ UNCHANGED offLedgerVars
    \/ \E u \in Users, c \in ClaimIds :
          refund(u, c) /\ UNCHANGED offLedgerVars
    \/ Tick /\ UNCHANGED offLedgerVars

Spec == Init /\ [][Next]_vars

\* ---- the relayer's claim handler in front of the contract
\* In front of the relayer one sender creates the gifts, each of amount 1,
\* and refunds them; requests are numbered in their order of arrival.
GiftSender == "alice"

\* handleClaim up to the ledger call: parse and validate the body, check the
\* configuration.
handleClaimValidate(r, body) ==
    /\ requests[r].pc = "idle"
    /\ IF r = 1 THEN TRUE ELSE requests[r - 1].pc # "idle"
    /\ requests' = [requests EXCEPT ![r] = claimValidation(body)]
    /\ UNCHANGED <<env, txs, ledgerCalls>>
    /\ UNCHANGED ledgerVars
    /\ UNCHANGED otherVars

\* handleClaim from the ledger call on: writeContract estimates the call
\* against the chain as it stands, which reports the contract's revert, and
\* then broadcasts the transaction; it returns the hash without waiting for
\* the transaction to be mined.
handleClaimWriteContract(r, rpc) ==
    LET claimSecret == requests[r].claimSecret
        walletAddress == requests[r].walletAddress
        revert == claimRevert(claimSecret, walletAddress)
        sent == revert = "ok" /\ rpc \in {"sent", "timeout after send"} IN
    /\ requests[r].pc = "calling"
    /\ ledgerCalls' = [ledgerCalls EXCEPT ![claimSecret] = @ + 1]
    /\ txs' = IF sent
              THEN [txs EXCEPT ![r] = [claimSecret |-> claimSecret, to |-> walletAddress,
                                        receipt |-> "pending"]]
              ELSE txs
    /\ requests' = [requests EXCEPT ![r] =
                       IF revert # "ok" THEN claimErrorResponse(revert)
                       ELSE IF rpc = "sent" THEN Response(200, "")
                       ELSE IF rpc = "timeout after send" THEN claimErrorResponse("timeout")
                       ELSE claimErrorResponse(rpc)]
    /\ UNCHANGED env
    /\ UNCHANGED ledgerVars
    /\ UNCHANGED otherVars

\* A block includes the claim transaction of request r: the contract runs
\* claim for the relayer.
mineClaim(r) ==
    /\ txs[r].receipt = "pending"
    /\ txs' = [txs EXCEPT ![r].receipt =
                  IF claimRevert(txs[r].claimSecret, txs[r].to) = "ok"
                  THEN "success" ELSE "reverted"]
    /\ claim(Relayer, txs[r].claimSecret, txs[r].to)
    /\ UNCHANGED <<env, requests, ledgerCalls>>
    /\ UNCHANGED otherVars

RelayNext ==
    \/ \E c \in ClaimIds, e \in 0..MaxTime :
          createGift(GiftSender, c, 1, e) /\ UNCHANGED offLedgerVars
    \/ \E c \in ClaimIds :
          refund(GiftSender, c) /\ UNCHANGED offLedgerVars
    \/ Tick /\ UNCHANGED offLedgerVars
    \/ \E r \in ReqIds, body \in Bodies : handleClaimValidate(r, body)
    \/ \E r \in ReqIds, rpc \in RpcOutcomes : handleClaimWriteContract(r, rpc)
    \/ \E r \in ReqIds : mineClaim(r)

RelaySpecInit ==
    /\ LedgerInit
    /\ RelayInit
    /\ StoreInit
    /\ ClientInit
    /\ BridgeInit
    /\ env \in [RELAYER_PRIVATE_KEY : BOOLEAN, GIFT_CONTRACT : BOOLEAN]

RelaySpec == RelaySpecInit /\ [][RelayNext]_vars

\* ---- the metadata store behind POST /api/gift and GET /api/gift/:claimId
\* handleCreateGift up to the INSERT.
handleCreateGiftValidate(r, body) ==
    /\ creates[r].pc = "idle"
    /\ IF r = 1 THEN TRUE ELSE creates[r - 1].pc # "idle"
    /\ creates' = [creates EXCEPT ![r] = createValidation(body)]
    /\ UNCHANGED <<db, clientVars, bridgeVars>>
    /\ UNCHANGED <<ledgerVars, relayVars>>

\* handleCreateGift from the INSERT on: D1 runs the statement as one step.
handleCreateGiftInsert(r, d1) ==
    LET claimId == creates[r].claimId
        error == insertError(claimId, d1) IN
    /\ creates[r].pc = "inserting"
    /\ db' = IF error = "ok"
             THEN [db EXCEPT ![claimId] =
                      [sender_address |-> creates[r].senderAddress,
                       amount |-> creates[r].amount, created_at |-> now]]
             ELSE db
    /\ creates' = [creates EXCEPT ![r] =
                      IF error = "ok" THEN CreateResponse(claimId, 200, "")
                      ELSE createErrorResponse(claimId, error)]
    /\ UNCHANGED <<clientVars, bridgeVars>>
    /\ UNCHANGED <<ledgerVars, relayVars>>

StoreNext ==
    \/ \E r \in ReqIds, body \in CreateBodies : handleCreateGiftValidate(r, body)
    \/ \E r \in ReqIds, d1 \in D1Outcomes : handleCreateGiftInsert(r, d1)

StoreSpec == Init /\ [][StoreNext]_vars

\* ---- a gift recorded in the store, created on the ledger and claimed
\* through the relayer
RecordNext ==
    \/ \E c \in ClaimIds :
          handleCreateGiftValidate(1, [json |-> TRUE, null |-> FALSE, claimId |-> c,
                                       senderAddress |-> GiftSender, amount |-> 1])
    \/ handleCreateGiftInsert(1, "ok")
    \/ \E c \in ClaimIds : createGift(GiftSender, c, 1, 0) /\ UNCHANGED offLedgerVars
    \/ \E r \in ReqIds, s \in Secrets :
          handleClaimValidate(r, [json |-> TRUE, null |-> FALSE, claimSecret |-> s,
                                  walletAddress |-> "bob"])
    \/ \E r \in ReqIds : handleClaimWriteContract(r, "sent")
    \/ \E r \in ReqIds : mineClaim(r)

RecordSpec == Init /\ [][RecordNext]_vars

\* ---- the bridge-enabled contract (first contract of HyperRail.sol)
bridgeCreateGift_NoTransfer(caller, claimId, amount) ==
    LET r == bridgeCreateGiftRevert(caller, claimId, amount) IN
    /\ IF r = "ok"
       THEN /\ bridgeGifts' = [bridgeGifts EXCEPT ![claimId] = amount]
            /\ totalGiftedAmount' = totalGiftedAmount + amount
       ELSE UNCHANGED <<bridgeGifts, totalGiftedAmount>>
    /\ UNCHANGED <<usdcBalance, contractBalance, claimed>>

bridgeCreateGift(caller, claimId, amount) ==
    LET r == bridgeCreateGiftRevert(caller, claimId, amount) IN
    /\ IF r = "ok"
       THEN /\ usdcBalance' = [usdcBalance EXCEPT ![caller] = @ - amount]
            /\ contractBalance' = contractBalance + amount
            /\ bridgeGifts' = [bridgeGifts EXCEPT ![claimId] = amount]
            /\ totalGiftedAmount' = totalGiftedAmount + amount
       ELSE UNCHANGED <<usdcBalance, contractBalance, bridgeGifts, totalGiftedAmount>>
    /\ UNCHANGED claimed

createGiftFromBridge(claimId, amount, senderAddress) ==
    LET r == createGiftFromBridgeRevert(claimId, amount) IN
    /\ IF r = "ok"
       THEN /\ bridgeGifts' = [bridgeGifts EXCEPT ![claimId] = amount]
            /\ totalGiftedAmount' = totalGiftedAmount + amount
       ELSE UNCHANGED <<bridgeGifts, totalGiftedAmount>>
    /\ UNCHANGED <<usdcBalance, contractBalance, claimed>>

bridgeClaim_KeepsTotal(claimSecret, to) ==
    LET r == bridgeClaimRevert(claimSecret, to)
        claimId == keccak256(claimSecret)
        amount == bridgeGifts[claimId] IN
    /\ IF r = "ok"
       THEN /\ claimed' = [claimed EXCEPT ![claimId] = TRUE]
            /\ contractBalance' = contractBalance - amount
            /\ usdcBalance' = [usdcBalance EXCEPT ![to] = @ + amount]
       ELSE UNCHANGED <<claimed, contractBalance, usdcBalance>>
    /\ UNCHANGED <<bridgeGifts, totalGiftedAmount>>

bridgeClaim(claimSecret, to) ==
    LET r == bridgeClaimRevert(claimSecret, to)
        claimId == keccak256(claimSecret)
        amount == bridgeGifts[claimId] IN
    /\ IF r = "ok"
       THEN /\ claimed' = [claimed EXCEPT ![claimId] = TRUE]
            /\ totalGiftedAmount' = totalGiftedAmount - amount
            /\ contractBalance' = contractBalance - amount
            /\ usdcBalance' = [usdcBalance EXCEPT ![to] = @ + amount]
       ELSE UNCHANGED <<claimed, totalGiftedAmount, contractBalance, usdcBalance>>
    /\ UNCHANGED bridgeGifts

\* The bridge (LI.FI) delivers USDC to the contract ahead of
\* createGiftFromBridge.
bridgeDeposit(amount) ==
    /\ contractBalance + amount <= MaxAmount + StartBalance
    /\ contractBalance' = contractBalance + amount
    /\ UNCHANGED <<usdcBalance, bridgeGifts, claimed, totalGiftedAmount>>

\* ---- the bridge-enabled contract behind a public mempool: a claim
\* transaction is submitted, visible to everybody with its arguments, and
\* executed later; before that anybody may call claim with what they saw.
submitClaim(r, claimSecret, to) ==
    /\ txs[r].receipt = "none"
    /\ IF r = 1 THEN TRUE ELSE txs[r - 1].receipt # "none"
    /\ txs' = [txs EXCEPT ![r] = [claimSecret |-> claimSecret, to |-> to,
                                  receipt |-> "pending"]]
    /\ UNCHANGED <<usdcBalance, contractBalance, bridgeGifts, claimed, totalGiftedAmount>>

\* A block executes the submitted transaction.
mineClaimTx(r) ==
    /\ txs[r].receipt = "pending"
    /\ txs' = [txs EXCEPT ![r].receipt =
                  IF bridgeClaimRevert(txs[r].claimSecret, txs[r].to) = "ok"
                  THEN "success" ELSE "reverted"]
    /\ bridgeClaim(txs[r].claimSecret, txs[r].to)

\* An observer of the pending transaction r calls claim with the secret the
\* transaction shows and a recipient of their own choice, and is executed
\* first.
frontRun(r, to) ==
    /\ txs[r].receipt = "pending"
    /\ to # txs[r].to
    /\ bridgeClaim(txs[r].claimSecret, to)
    /\ UNCHANGED txs

MempoolNext ==
    \/ \E c \in ClaimIds, a \in 0..MaxAmount :
          /\ bridgeCreateGift(GiftSender, c, a)
          /\ UNCHANGED <<txs, version, lastCall, gifts, hyperCoreBalances, now, events>>
          /\ UNCHANGED <<env, requests, ledgerCalls, storeVars, clientVars>>
    \/ \E r \in ReqIds, s \in Secrets, w \in Users :
          /\ submitClaim(r, s, w)
          /\ UNCHANGED <<version, lastCall, gifts, hyperCoreBalances, now, events>>
          /\ UNCHANGED <<env, requests, ledgerCalls, storeVars, clientVars>>
    \/ \E r \in ReqIds :
          /\ mineClaimTx(r)
          /\ UNCHANGED <<version, lastCall, gifts, hyperCoreBalances, now, events>>
          /\ UNCHANGED <<env, requests, ledgerCalls, storeVars, clientVars>>
    \/ \E r \in ReqIds, w \in Callers :
          /\ frontRun(r, w)
          /\ UNCHANGED <<version, lastCall, gifts, hyperCoreBalances, now, events>>
          /\ UNCHANGED <<env, requests, ledgerCalls, storeVars, clientVars>>

\* The bridge-enabled contract is the one deployed, nothing submitted yet.
MempoolInit ==
    /\ LedgerInit
    /\ RelayInit
    /\ StoreInit
    /\ ClientInit
    /\ version = "bridge"
    /\ bridgeGifts = [c \in ClaimIds |-> 0]
    /\ claimed = [c \in ClaimIds |-> FALSE]
    /\ totalGiftedAmount = 0
    /\ lastCall = NoCall
    /\ env = [RELAYER_PRIVATE_KEY |-> TRUE, GIFT_CONTRACT |-> TRUE]

MempoolSpec == MempoolInit /\ [][MempoolNext]_vars

\* ---- the bridge-enabled contract on its own, called by the users and the
\* bridge, with claim attempts for every secret weakly fair
bridgeFrame ==
    /\ UNCHANGED <<version, lastCall, gifts, hyperCoreBalances, now, events>>
    /\ UNCHANGED <<relayVars, storeVars, clientVars>>

BridgeNext ==
    \/ \E u \in Users, c \in ClaimIds, a \in 0..MaxAmount :
          bridgeCreateGift(u, c, a) /\ bridgeFrame
    \/ \E c \in ClaimIds, a \in 0..MaxAmount, u \in Users :
          createGiftFromBridge(c, a, u) /\ bridgeFrame
    \/ \E s \in Secrets, w \in Users :
          bridgeClaim(s, w) /\ bridgeFrame
    \/ \E a \in 1..MaxAmount :
          bridgeDeposit(a) /\ bridgeFrame

BridgeFairness ==
    \A s \in Secrets : WF_vars(\E w \in Users : bridgeClaim(s, w) /\ bridgeFrame)

BridgeFairSpec == MempoolInit /\ [][BridgeNext]_vars /\ BridgeFairness

\* ---- either contract, with every call traced in lastCall; one sender
\* creates the gifts and the relayer claims them
traced(fn, caller, input, claimId, revert) ==
    lastCall' = [Call(fn, caller, input, claimId, revert) EXCEPT !.seq = 1 - lastCall.seq]

expiryCall(fn, caller, input, claimId, revert) ==
    /\ version = "expiry"
    /\ traced(fn, caller, input, claimId, revert)
    /\ UNCHANGED <<version, bridgeGifts, claimed, totalGiftedAmount>>
    /\ UNCHANGED <<relayVars, storeVars, clientVars>>

bridgeCall(fn, caller, input, claimId, revert) ==
    /\ version = "bridge"
    /\ traced(fn, caller, input, claimId, revert)
    /\ UNCHANGED <<version, gifts, hyperCoreBalances, now, events>>
    /\ UNCHANGED <<relayVars, storeVars, clientVars>>

CallNext ==
    \/ \E c \in ClaimIds \cup {ZeroId}, a \in 0..MaxAmount, e \in 0..MaxTime :
          createGift(GiftSender, c, a, e)
          /\ expiryCall("createGift", GiftSender, c, c, createGiftRevert(GiftSender, c, a, e))
    \/ \E s \in Secrets, w \in Users \cup {ZeroAddress} :
          claim(Relayer, s, w) /\ expiryCall("claim", Relayer, s, keccak256(s), claimRevert(s, w))
    \/ \E u \in Users, c \in ClaimIds :
          refund(u, c) /\ expiryCall("refund", u, c, c, refundRevert(u, c))
    \/ version = "expiry" /\ Tick /\ UNCHANGED offLedgerVars
    \/ \E c \in ClaimIds, a \in 0..MaxAmount :
          bridgeCreateGift(GiftSender, c, a)
          /\ bridgeCall("createGift", GiftSender, c, c, bridgeCreateGiftRevert(GiftSender, c, a))
    \/ \E c \in ClaimIds, a \in 0..MaxAmount :
          createGiftFromBridge(c, a, GiftSender)
          /\ bridgeCall("createGiftFromBridge", Relayer, c, c, createGiftFromBridgeRevert(c, a))
    \/ \E s \in Secrets, w \in Users :
          bridgeClaim(s, w) /\ bridgeCall("claim", Relayer, s, keccak256(s), bridgeClaimRevert(s, w))
    \/ \E a \in 1..MaxAmount :
          /\ version = "bridge"
          /\ bridgeDeposit(a)
          /\ UNCHANGED <<version, lastCall, gifts, hyperCoreBalances, now, events>>
          /\ UNCHANGED <<relayVars, storeVars, clientVars>>

\* Either of the two contracts of HyperRail.sol is the one deployed.
CallInit ==
    /\ LedgerInit
    /\ RelayInit
    /\ StoreInit
    /\ ClientInit
    /\ version \in {"expiry", "bridge"}
    /\ bridgeGifts = [c \in ClaimIds |-> 0]
    /\ claimed = [c \in ClaimIds |-> FALSE]
    /\ totalGiftedAmount = 0
    /\ lastCall = NoCall
    /\ env = [RELAYER_PRIVATE_KEY |-> TRUE, GIFT_CONTRACT |-> TRUE]

CallSpec == CallInit /\ [][CallNext]_vars

\* ---- the frontend
\* steps.map(s => ({...s, status}))
withStatus(steps, status) ==
    [i \in 1..Len(steps) |-> [steps[i] EXCEPT !.status = status]]

\* steps.findIndex(s => s.status === "active"), counted from 1; 0 for none.
activeIndex(steps) ==
    LET active == {i \in 1..Len(steps) : steps[i].status = "active"} IN
    IF active = {} THEN 0 ELSE CHOOSE i \in active : \A j \in active : i <= j

\* useTransactionStatus.updateSteps
updateSteps(lifiStatus, substatus) ==
    LET newSteps == txDefaultSteps IN
    IF lifiStatus = "PENDING"
    THEN IF substatus = "WAIT_SOURCE_CONFIRMATIONS"
         THEN [newSteps EXCEPT ![1] = [status |-> "active",
                                       description |-> "Confirming on source chain..."]]
         ELSE IF substatus = "WAIT_DESTINATION_TRANSACTION"
         THEN [newSteps EXCEPT ![1].status = "completed",
                               ![2] = [status |-> "active",
                                       description |-> "Bridging to HyperEVM..."]]
         ELSE [newSteps EXCEPT ![1].status = "active"]
    ELSE IF lifiStatus = "DONE" THEN withStatus(newSteps, "completed")
    ELSE IF lifiStatus = "FAILED"
    THEN IF activeIndex(newSteps) > 0
         THEN [newSteps EXCEPT ![activeIndex(newSteps)].status = "failed"]
         ELSE [newSteps EXCEPT ![1].status = "failed"]
    ELSE IF lifiStatus = "NOT_FOUND"
    THEN [newSteps EXCEPT ![1] = [status |-> "active",
                                  description |-> "Transaction submitted..."]]
    ELSE newSteps

\* useTransactionStatus.pollStatus: what it makes of data.status.
pollStatusBranch_NotFoundFails(lifiStatus) ==
    IF lifiStatus = "DONE" THEN "done"
    ELSE IF lifiStatus \in {"FAILED", "NOT_FOUND"} THEN "failed"
    ELSE "processing"

pollStatusBranch(lifiStatus) ==
    IF lifiStatus = "DONE" THEN "done"
    ELSE IF lifiStatus = "FAILED" THEN "failed"
    ELSE "processing"

\* useTransactionStatus.pollStatus from the return of its fetch on: the hook
\* after the poll.  A fetch that throws and a response that is not ok end in
\* the catch, which changes nothing.
txAfterPoll(h, fetched) ==
    LET back == [h EXCEPT !.inflight = @ - 1] IN
    IF fetched.kind = "network failure" THEN [back EXCEPT !.last = "network failure"]
    ELSE IF ~ok(fetched) THEN [back EXCEPT !.last = "http error"]
    ELSE IF h.isCancelled THEN [back EXCEPT !.last = "cancelled"]
    ELSE LET status == field(fetched.data, "status")
             branch == pollStatusBranch(status)
             shown == [back EXCEPT !.last = status,
                                   !.steps = updateSteps(status, field(fetched.data, "substatus")),
                                   !.status = branch] IN
         IF branch = "done"
         THEN [shown EXCEPT !.interval = FALSE, !.completions = @ + 1]
         ELSE IF branch = "failed"
         THEN [shown EXCEPT !.error = "Transaction failed", !.interval = FALSE]
         ELSE shown

\* useGiftStatus.updateSteps
giftUpdateSteps(giftStatus) ==
    LET newSteps == giftDefaultSteps IN
    IF giftStatus = "pending_bridge"
    THEN [newSteps EXCEPT ![1].status = "completed",
                          ![2] = [status |-> "active",
                                  description |-> "Bridging USDC to HyperEVM..."]]
    ELSE IF giftStatus = "creating_gift"
    THEN [newSteps EXCEPT ![1].status = "completed", ![2].status = "completed",
                          ![3] = [status |-> "active",
                                  description |-> "Creating gift on-chain..."]]
    ELSE IF giftStatus = "completed" THEN withStatus(newSteps, "completed")
    ELSE IF giftStatus = "failed"
    THEN IF activeIndex(newSteps) > 0
         THEN [newSteps EXCEPT ![activeIndex(newSteps)].status = "failed"]
         ELSE [newSteps EXCEPT ![2].status = "failed"]
    ELSE newSteps

\* useGiftStatus.pollStatus from the return of its fetch on.
giftAfterPoll(h, fetched) ==
    LET back == [h EXCEPT !.inflight = @ - 1] IN
    IF fetched.kind = "network failure" THEN [back EXCEPT !.last = "network failure"]
    ELSE IF h.isCancelled THEN [back EXCEPT !.last = "cancelled"]
    ELSE IF ~ok(fetched)
    THEN [back EXCEPT !.last = "http error", !.error = fetched.data.error]
    ELSE LET newStatus == field(fetched.data, "status")
             shown == [back EXCEPT !.last = newStatus, !.status = newStatus,
                                   !.steps = giftUpdateSteps(newStatus)] IN
         IF newStatus = "completed"
         THEN [shown EXCEPT !.interval = FALSE, !.completions = @ + 1]
         ELSE IF newStatus = "failed"
         THEN [shown EXCEPT !.error = "Gift creation failed", !.interval = FALSE]
         ELSE shown

\* ClaimPage.fetchGiftInfo from the return of its fetch on.
pageAfterFetch(pg, fetched) ==
    LET back == [pg EXCEPT !.inflight = @ - 1] IN
    IF fetched.kind = "network failure"
    THEN [back EXCEPT !.last = "network failure",
                      !.error = "Failed to load gift information",
                      !.flowStatus = "error"]
    ELSE IF ~ok(fetched)
    THEN IF fetched.status = 404
         THEN [back EXCEPT !.last = "http error", !.flowStatus = "not_found"]
         ELSE [back EXCEPT !.last = "http error", !.error = fetched.data.error,
                           !.flowStatus = "error"]
    ELSE LET status == field(fetched.data, "status")
             info == [back EXCEPT !.last = status, !.giftInfo = status] IN
         IF status = "completed" THEN [info EXCEPT !.flowStatus = "select_method"]
         ELSE IF status = "claimed" THEN [info EXCEPT !.flowStatus = "already_claimed"]
         ELSE IF status \in {"pending_bridge", "creating_gift"}
         THEN [info EXCEPT !.flowStatus = "pending"]
         ELSE IF status = "failed"
         THEN [info EXCEPT
                  !.error = "This gift failed to process. Please contact the sender.",
                  !.flowStatus = "error"]
         ELSE [info EXCEPT !.flowStatus = "select_method"]

\* One screen is open at a time: a hook or the page starts only while the
\* others are as constructed.
txEffect(enabled) ==
    /\ txHook.pc = "idle"
    /\ giftHook = GiftHookInit /\ page = PageInit
    /\ txHook' = IF enabled
                 THEN [txHook EXCEPT !.pc = "running",
                                     !.steps = updateSteps("NOT_FOUND", ""),
                                     !.status = "processing",
                                     !.inflight = 1, !.interval = TRUE]
                 ELSE [txHook EXCEPT !.pc = "off"]
    /\ UNCHANGED <<giftHook, page>>

\* setInterval(pollStatus, 5000) fires: one more poll is in flight.
txInterval ==
    /\ txHook.interval
    /\ txHook.inflight < MaxInflight
    /\ txHook' = [txHook EXCEPT !.inflight = @ + 1]
    /\ UNCHANGED <<giftHook, page>>

txPollReturns(fetched) ==
    /\ txHook.inflight > 0
    /\ txHook' = txAfterPoll(txHook, fetched)
    /\ UNCHANGED <<giftHook, page>>

\* The cleanup of the effect (unmount).
txCleanup ==
    /\ txHook.pc = "running"
    /\ txHook' = [txHook EXCEPT !.pc = "cleaned", !.isCancelled = TRUE, !.interval = FALSE]
    /\ UNCHANGED <<giftHook, page>>

giftEffect(enabled) ==
    /\ giftHook.pc = "idle"
    /\ txHook = TxHookInit /\ page = PageInit
    /\ giftHook' = IF enabled
                   THEN [giftHook EXCEPT !.pc = "running",
                                         !.steps = giftUpdateSteps("pending_bridge"),
                                         !.status = "pending_bridge",
                                         !.inflight = 1, !.interval = TRUE]
                   ELSE [giftHook EXCEPT !.pc = "off"]
    /\ UNCHANGED <<txHook, page>>

giftInterval ==
    /\ giftHook.interval
    /\ giftHook.inflight < MaxInflight
    /\ giftHook' = [giftHook EXCEPT !.inflight = @ + 1]
    /\ UNCHANGED <<txHook, page>>

giftPollReturns(fetched) ==
    /\ giftHook.inflight > 0
    /\ giftHook' = giftAfterPoll(giftHook, fetched)
    /\ UNCHANGED <<txHook, page>>

giftCleanup ==
    /\ giftHook.pc = "running"
    /\ giftHook' = [giftHook EXCEPT !.pc = "cleaned", !.isCancelled = TRUE,
                                    !.interval = FALSE]
    /\ UNCHANGED <<txHook, page>>

\* ClaimPage opens on a claim link: without a claimId it shows not_found,
\* without a secret it waits, otherwise it calls fetchGiftInfo, which shows
\* not_found for a malformed claimId or secret and fetches the record
\* otherwise.
ClaimLinks == {"no claimId", "no secret", "malformed", "valid"}

pageLoad(link) ==
    /\ page = PageInit
    /\ txHook = TxHookInit /\ giftHook = GiftHookInit
    /\ page' = IF link = "no secret" THEN page
               ELSE IF link = "valid" THEN [page EXCEPT !.inflight = 1]
               ELSE [page EXCEPT !.flowStatus = "not_found"]
    /\ UNCHANGED <<txHook, giftHook>>

\* The page polls while it shows pending: setInterval(fetchGiftInfo, 5000).
pagePolling(pg) == pg.flowStatus = "pending"

pageInterval ==
    /\ pagePolling(page)
    /\ page.inflight < MaxInflight
    /\ page' = [page EXCEPT !.inflight = @ + 1]
    /\ UNCHANGED <<txHook, giftHook>>

\* The Try Again button of the error screen.
pageTryAgain ==
    /\ page.flowStatus = "error"
    /\ page.inflight < MaxInflight
    /\ page' = [page EXCEPT !.inflight = @ + 1]
    /\ UNCHANGED <<txHook, giftHook>>

pageFetchReturns(fetched) ==
    /\ page.inflight > 0
    /\ page' = pageAfterFetch(page, fetched)
    /\ UNCHANGED <<txHook, giftHook>>

nonClientVars == <<ledgerVars, relayVars, storeVars, bridgeVars>>

ClientNext ==
    \/ \E enabled \in BOOLEAN : txEffect(enabled) /\ UNCHANGED nonClientVars
    \/ txInterval /\ UNCHANGED nonClientVars
    \/ \E fetched \in TxFetches : txPollReturns(fetched) /\ UNCHANGED nonClientVars
    \/ txCleanup /\ UNCHANGED nonClientVars
    \/ \E enabled \in BOOLEAN : giftEffect(enabled) /\ UNCHANGED nonClientVars
    \/ giftInterval /\ UNCHANGED nonClientVars
    \/ \E fetched \in GiftFetches : giftPollReturns(fetched) /\ UNCHANGED nonClientVars
    \/ giftCleanup /\ UNCHANGED nonClientVars
    \/ \E link \in ClaimLinks : pageLoad(link) /\ UNCHANGED nonClientVars
    \/ pageInterval /\ UNCHANGED nonClientVars
    \/ pageTryAgain /\ UNCHANGED nonClientVars
    \/ \E fetched \in GiftFetches : pageFetchReturns(fetched) /\ UNCHANGED nonClientVars

ClientSpec == Init /\ [][ClientNext]_vars

\* The fairness of hyperrail-v2.tla: time keeps advancing and a claim that
\* stays possible is eventually made; nothing is assumed about refund.
Fairness ==
    /\ WF_vars(Tick /\ UNCHANGED offLedgerVars)
    /\ \A s \in Secrets : WF_vars(\E u \in Users, w \in Users :
                                        claim(u, s, w) /\ UNCHANGED offLedgerVars)

FairSpec == Init /\ [][Next]_vars /\ Fairness

\* ------------------------------------------------- the entry's life cycle
\* nonexistent -> pending -> claimed | refunded, read off storage and events.
Last(seq) == seq[Len(seq)]

CountOf(claimId, name) ==
    Cardinality({i \in 1..Len(events[claimId]) : events[claimId][i].name = name})

Status(claimId) ==
    IF gifts[claimId].amount = 0 THEN "nonexistent"
    ELSE IF ~gifts[claimId].claimed THEN "pending"
    ELSE IF events[claimId] # <<>> /\ Last(events[claimId]).name = "GiftRefunded" THEN "refunded"
    ELSE "claimed"

Resolved(claimId) == Status(claimId) \in {"claimed", "refunded"}

\* The step emits an event of this name for claimId.
Emits(claimId, name) ==
    /\ Len(events'[claimId]) = Len(events[claimId]) + 1
    /\ Last(events'[claimId]).name = name

RECURSIVE SumOver(_, _)
SumOver(S, f) ==
    IF S = {} THEN 0
    ELSE LET x == CHOOSE y \in S : TRUE IN f[x] + SumOver(S \ {x}, f)

\* Sum of the amounts of all pending (not claimed, not refunded) entries.
PendingSum ==
    SumOver(ClaimIds, [c \in ClaimIds |->
                          IF Status(c) = "pending" THEN gifts[c].amount ELSE 0])

\* ----------------------------------------------------------------- claims

\* C1: once an entry has been claimed, no later call changes the entry or
\* emits another event for it (no second payout), and a claim with the same
\* secret is rejected with "already claimed".
C1_NoDoubleClaim ==
    [][\A s \in Secrets :
          LET c == keccak256(s) IN
          Status(c) = "claimed" =>
             /\ gifts'[c] = gifts[c]
             /\ events'[c] = events[c]
             /\ CountOf(c, "GiftClaimed") = 1
             /\ \A w \in Users : claimRevert(s, w) = "already claimed"]_vars

C1_Witness ==
    \E c \in ClaimIds :
       /\ Status(c) = "claimed"
       /\ gifts[c].expiry > 0
       /\ now > gifts[c].expiry

\* C2: an entry is resolved at most once, and a claimed or a refunded entry
\* keeps its status under every later call: a claimed entry is never
\* refunded, a refunded entry is never claimed or refunded again.
C2_ResolvedOnce ==
    [][\A c \in ClaimIds :
          /\ (CountOf(c, "GiftClaimed") + CountOf(c, "GiftRefunded") <= 1)'
          /\ Resolved(c) => /\ Status(c)' = Status(c)
                            /\ ~Emits(c, "GiftClaimed")
                            /\ ~Emits(c, "GiftRefunded")
                            /\ \A u \in Users : refundRevert(u, c) = "already claimed"]_vars

C2_Witness ==
    \E c1, c2 \in ClaimIds :
       /\ Status(c1) = "claimed"
       /\ Status(c2) = "refunded"

\* C3: the USDC the contract holds covers the pending entries.
C3_Conservation == getContractBalance >= PendingSum

C3_Witness ==
    \E c1, c2 \in ClaimIds :
       /\ Status(c1) = "pending"
       /\ Status(c2) = "refunded"
       /\ getContractBalance = PendingSum

\* C4: a refund goes through only for an existing pending entry with a
\* non-zero expiry, at a time strictly after the expiry, called by the
\* entry's sender; an entry with expiry 0 is refundable by nobody.
C4_RefundOnlyIf ==
    [][\A c \in ClaimIds :
          /\ Emits(c, "GiftRefunded") =>
                /\ Status(c) = "pending"
                /\ gifts[c].expiry > 0
                /\ now > gifts[c].expiry
                /\ Last(events'[c]).who = gifts[c].sender
          /\ (gifts[c].amount > 0 /\ gifts[c].expiry = 0) =>
                \A u \in Users : refundRevert(u, c) # "ok"]_vars

C4_Witness ==
    \E c \in ClaimIds :
       /\ Status(c) = "refunded"
       /\ gifts[c].expiry > 0
       /\ now > gifts[c].expiry
       /\ Last(events[c]).who = gifts[c].sender

\* C5: a claim goes through only for a pending entry whose expiry is 0 or
\* not yet passed; strictly after a non-zero expiry every claim of a pending
\* entry is rejected with "expired".
C5_ClaimOnlyIf ==
    [][\A s \in Secrets :
          LET c == keccak256(s) IN
          /\ Emits(c, "GiftClaimed") =>
                /\ Status(c) = "pending"
                /\ gifts[c].expiry = 0 \/ now <= gifts[c].expiry
          /\ (Status(c) = "pending" /\ gifts[c].expiry > 0 /\ now > gifts[c].expiry) =>
                \A w \in Users : claimRevert(s, w) = "expired"]_vars

C5_Witness ==
    \E c1, c2 \in ClaimIds :
       /\ Status(c1) = "claimed"
       /\ gifts[c1].expiry > 0
       /\ Status(c2) = "pending"
       /\ gifts[c2].expiry > 0
       /\ now > gifts[c2].expiry

\* Pending past a non-zero expiry: only the sender's refund can resolve it.
IsExpired(claimId) ==
    /\ Status(claimId) = "pending"
    /\ gifts[claimId].expiry > 0
    /\ now > gifts[claimId].expiry

C7_CreateOnce ==
    \A c \in ClaimIds :
       /\ CountOf(c, "GiftCreated") <= 1
       /\ Status(c) # "nonexistent" =>
             \A u \in Users, a \in 1..MaxAmount, e \in 0..MaxTime :
                createGiftRevert(u, c, a, e) = "gift exists"

C7_Witness ==
    \E c \in ClaimIds :
       /\ Status(c) = "refunded"
       /\ usdcBalance[gifts[c].sender] >= gifts[c].amount

\* C10 as stated: after the sender's refund of an expired entry, a claim
\* with the matching secret fails with "expired".
C10_ClaimAfterRefundExpired ==
    \A s \in Secrets :
       Status(keccak256(s)) = "refunded" =>
          \A w \in Users : claimRevert(s, w) = "expired"

\* C10 amended: the refund raises the sender's USDC balance by the entry's
\* amount, and a later claim with the matching secret fails with
\* "already claimed".
C10_ClaimAfterRefundAlreadyClaimed ==
    [][\A s \in Secrets :
          LET c == keccak256(s) IN
          /\ Emits(c, "GiftRefunded") =>
                usdcBalance'[gifts[c].sender] = usdcBalance[gifts[c].sender] + gifts[c].amount
          /\ Status(c) = "refunded" =>
                \A w \in Users : claimRevert(s, w) = "already claimed"]_vars

C10_Witness ==
    \E c \in ClaimIds :
       /\ Status(c) = "refunded"
       /\ usdcBalance[gifts[c].sender] = StartBalance

\* Requests answered 200 for a secret, and whether the relayer's escrow
\* claim for a secret has already gone through on the ledger.
SuccessfulRequests(claimSecret) ==
    {r \in ReqIds : requests[r].status = 200 /\ txs[r].claimSecret = claimSecret}

EscrowClaimDone(claimSecret) ==
    \E q \in ReqIds : txs[q].claimSecret = claimSecret /\ txs[q].receipt = "success"

\* C8: once the escrow claim (step 1) of a secret has succeeded, a retry of
\* the same claim does not call the ledger's claim again and completes
\* successfully.
C8_RetryResumes ==
    [][\A r \in ReqIds :
          LET s == requests[r].claimSecret IN
          (requests[r].pc = "calling" /\ requests'[r].pc = "done" /\ EscrowClaimDone(s)) =>
             /\ ledgerCalls'[s] = ledgerCalls[s]
             /\ requests'[r].status = 200]_vars

\* C9: of the claim requests for one secret at most one is answered as
\* successful, and the gift is paid out at most once.
C9_OneSuccessPerSecret ==
    \A s \in Secrets :
       /\ Cardinality(SuccessfulRequests(s)) <= 1
       /\ CountOf(keccak256(s), "GiftClaimed") <= 1

\* What GiftCreated recorded for claimId: the amount the entry was created
\* with, 0 when it never was.
CreatedAmount(claimId) ==
    IF events[claimId] = <<>> THEN 0 ELSE events[claimId][1].amount

\* C11: at every time getGiftStatus(claimId) reports exists exactly when the
\* entry was created, the amount it was created with, and claimable exactly
\* when a claim with the matching secret to a non-zero wallet would go
\* through now, which is when the entry is pending and its expiry is 0 or
\* not passed; for a claimId never created it reports (false, false, 0).
C11_StatusView ==
    \A s \in Secrets :
       LET c == keccak256(s)
           view == getGiftStatus(c) IN
       /\ view.exists = (CountOf(c, "GiftCreated") > 0)
       /\ view.amount = CreatedAmount(c)
       /\ view.claimable = (\A w \in Users : claimRevert(s, w) = "ok")
       /\ view.claimable = (/\ Status(c) = "pending"
                            /\ gifts[c].expiry = 0 \/ now <= gifts[c].expiry)
       /\ CountOf(c, "GiftCreated") = 0 =>
             view = [exists |-> FALSE, claimable |-> FALSE, amount |-> 0]

C11_Witness ==
    \E c1, c2 \in ClaimIds :
       /\ IsExpired(c1)
       /\ ~getGiftStatus(c1).claimable
       /\ getGiftStatus(c1).amount > 0
       /\ getGiftStatus(c2).claimable
       /\ gifts[c2].expiry = now

\* C12: a claim that goes through credits the entry's amount to the wallet
\* named in the call and changes no other HyperCore balance and no USDC
\* balance, whoever the caller is: a caller who is not that wallet keeps all
\* its balances.
C12_ClaimCreditsDestinationOnly ==
    [][\A c \in ClaimIds :
          Emits(c, "GiftClaimed") =>
             LET to == Last(events'[c]).who IN
             /\ hyperCoreBalances' =
                   [hyperCoreBalances EXCEPT ![to] = @ + gifts[c].amount]
             /\ Last(events'[c]).amount = gifts[c].amount
             /\ usdcBalance' = usdcBalance
             /\ contractBalance' = contractBalance]_vars

C12_Witness ==
    \E c \in ClaimIds :
       /\ Status(c) = "claimed"
       /\ Last(events[c]).who # gifts[c].sender
       /\ hyperCoreBalances[Last(events[c]).who] = gifts[c].amount
       /\ hyperCoreBalances[gifts[c].sender] = 0

\* C13: a refund that goes through returns the entry's amount to the
\* sender's USDC balance out of the contract's, and leaves every HyperCore
\* balance and every other entry as it was.
C13_RefundFrame ==
    [][\A c \in ClaimIds :
          Emits(c, "GiftRefunded") =>
             LET sender == gifts[c].sender IN
             /\ usdcBalance' = [usdcBalance EXCEPT ![sender] = @ + gifts[c].amount]
             /\ contractBalance' = contractBalance - gifts[c].amount
             /\ hyperCoreBalances' = hyperCoreBalances
             /\ \A d \in ClaimIds \ {c} : gifts'[d] = gifts[d] /\ events'[d] = events[d]]_vars

C13_Witness ==
    \E c, d \in ClaimIds, u \in Users :
       /\ Status(c) = "refunded"
       /\ Status(d) = "pending"
       /\ hyperCoreBalances[u] > 0

\* The request has a well-formed secret and address and the relayer is
\* configured.
WellFormed(request) ==
    /\ isBytes32(request.claimSecret)
    /\ isAddress(request.walletAddress)
    /\ env.RELAYER_PRIVATE_KEY
    /\ env.GIFT_CONTRACT

\* C14: handleClaim calls the ledger only for a request whose body was JSON
\* with a well-formed claimSecret and walletAddress, with the relayer key
\* and the contract address configured; every other request is answered
\* with a validation (400) or misconfiguration (503) error, and nothing
\* else has changed by then.
C14_ValidatedBeforeLedgerCall ==
    [][\A r \in ReqIds :
          /\ requests'[r].pc = "calling" => WellFormed(requests'[r])
          /\ (requests[r].pc = "calling" /\ requests'[r].pc = "done") =>
                WellFormed(requests[r])
          /\ (\E s \in Secrets : ledgerCalls'[s] # ledgerCalls[s]) =>
                \E q \in ReqIds : requests[q].pc = "calling" /\ requests'[q].pc = "done"
          /\ (requests[r].pc = "idle" /\ requests'[r].pc = "done") =>
                /\ requests'[r].status \in {400, 503}
                /\ UNCHANGED <<gifts, usdcBalance, contractBalance, hyperCoreBalances,
                               events, txs, ledgerCalls>>]_vars

\* C15: every claim transaction the relayer sends names the relayer's own
\* (custodial) address as the destination, never the wallet of the request.
C15_ClaimsToCustodialAddress ==
    \A r \in ReqIds : txs[r].receipt # "none" => txs[r].to = Relayer

\* C16: once a claim request has been answered as successful and its
\* transaction has gone through, the record stored for the claimId has
\* status claimed and holds the recipient address and the transaction
\* reference, so a status query for the claimId reports claimed.
C16_RecordMarkedClaimed ==
    \A r \in ReqIds :
       LET c == keccak256(txs[r].claimSecret)
           reply == handleGetGift(c, "ok") IN
       (requests[r].status = 200 /\ txs[r].receipt = "success" /\ db[c] # NoRow) =>
          /\ reply.status = 200
          /\ field(reply.data, "status") = "claimed"
          /\ field(reply.data, "recipientAddress") = txs[r].to
          /\ field(reply.data, "claimTxHash") # "undefined"

\* Requests of POST /api/gift answered for claimId with this status.
CreatesAnswered(claimId, status) ==
    {r \in ReqIds : creates[r].pc = "done" /\ creates[r].claimId = claimId
                    /\ creates[r].status = status}

\* C17: the store holds at most one record per claimId: an insert for a
\* claimId that has a record is answered 409 (already exists) and leaves the
\* record as it is, and of the inserts made for one claimId, concurrent or
\* not, exactly one is answered as successful when a record is stored, and
\* none otherwise.
C17_OneRecordPerClaimId ==
    [][\A c \in ClaimIds :
          /\ db[c] # NoRow => db'[c] = db[c]
          /\ Cardinality(CreatesAnswered(c, 200))' = (IF db'[c] = NoRow THEN 0 ELSE 1)
          /\ \A r \in ReqIds :
                (/\ creates[r].pc = "inserting" /\ creates[r].claimId = c
                 /\ db[c] # NoRow /\ creates'[r].pc = "done") =>
                   creates'[r].status \in {409, 500}]_vars

C17_Witness ==
    \E c \in ClaimIds, r1, r2 \in ReqIds :
       /\ r1 \in CreatesAnswered(c, 200)
       /\ r2 \in CreatesAnswered(c, 409)
       /\ r2 < r1

\* The entry of claimId exists in the deployed contract, and it is resolved.
EntryExists(claimId) ==
    claimId \in ClaimIds /\
    (IF version = "expiry" THEN gifts[claimId].amount # 0 ELSE bridgeGifts[claimId] # 0)

EntryResolved(claimId) ==
    claimId \in ClaimIds /\
    (IF version = "expiry" THEN gifts[claimId].claimed ELSE claimed[claimId])

\* C18: every call of createGift, createGiftFromBridge, claim and refund
\* that is rejected leaves all entries, all balances and the event log as
\* they were; a createGift (or createGiftFromBridge) for a claimId that
\* exists and a claim (or refund) of an entry already resolved are rejected.
C18_RejectedCallsChangeNothing ==
    [][LET call == lastCall' IN
       call # lastCall =>
          /\ call.revert # "ok" =>
                UNCHANGED <<gifts, usdcBalance, contractBalance, hyperCoreBalances,
                            events, bridgeGifts, claimed, totalGiftedAmount>>
          /\ (call.fn \in {"createGift", "createGiftFromBridge"}
              /\ EntryExists(call.claimId)) => call.revert # "ok"
          /\ (call.fn \in {"claim", "refund"} /\ EntryResolved(call.claimId)) =>
                call.revert # "ok"]_vars

C18_Witness ==
    /\ version = "expiry"
    /\ lastCall.fn = "createGift"
    /\ lastCall.revert = "gift exists"
    /\ Status(lastCall.claimId) = "refunded"
    /\ \E c \in ClaimIds : Status(c) = "claimed"

\* The statuses of the steps, without their descriptions.
stepStatuses(steps) == [i \in 1..Len(steps) |-> steps[i].status]

\* The reply of the status endpoint for a transaction still under way, with
\* no substatus.
PendingReply ==
    Fetched(handleStatus([kind |-> "ok", status |-> "PENDING", substatus |-> ""]))

\* C19: a poll of useTransactionStatus that comes back with NOT_FOUND leaves
\* the hook as a plain PENDING would (status, error, interval and the
\* statuses of the steps): it moves the transaction to no failed or done
\* status, marks no step failed, and the interval keeps polling.
C19_NotFoundIsPending ==
    [][(txHook'.inflight = txHook.inflight - 1 /\ txHook'.last = "NOT_FOUND") =>
          LET pending == txAfterPoll(txHook, PendingReply) IN
          /\ txHook'.status = pending.status
          /\ txHook'.status \notin {"failed", "done"}
          /\ txHook'.error = txHook.error
          /\ txHook'.interval = txHook.interval
          /\ stepStatuses(txHook'.steps) = stepStatuses(pending.steps)
          /\ \A i \in 1..4 : txHook'.steps[i].status # "failed"]_vars

C19_Witness ==
    /\ txHook.last = "NOT_FOUND"
    /\ txHook.status = "processing"
    /\ txHook.interval
    /\ txHook.inflight = MaxInflight

\* C20: a fetch that fails with a timeout or a network error puts neither
\* hook and not the claim page into a failed or error state, and the status
\* checks go on as before.
C20_NetworkFailureIsNotFailure ==
    [][/\ (txHook'.inflight = txHook.inflight - 1 /\ txHook'.last = "network failure") =>
             /\ txHook'.status = txHook.status
             /\ txHook'.error = txHook.error
             /\ txHook'.interval = txHook.interval
       /\ (giftHook'.inflight = giftHook.inflight - 1
           /\ giftHook'.last = "network failure") =>
             /\ giftHook'.status = giftHook.status
             /\ giftHook'.error = giftHook.error
             /\ giftHook'.interval = giftHook.interval
       /\ (page'.inflight = page.inflight - 1 /\ page'.last = "network failure") =>
             /\ page'.flowStatus # "error"
             /\ pagePolling(page') = pagePolling(page)]_vars

\* Bridge-enabled contract: sum of the amounts of the gifts that exist and
\* are not claimed.
UnclaimedSum ==
    SumOver(ClaimIds, [c \in ClaimIds |->
                          IF bridgeGifts[c] > 0 /\ ~claimed[c] THEN bridgeGifts[c] ELSE 0])

\* C21: in the bridge-enabled contract, after any sequence of createGift,
\* createGiftFromBridge and claim calls (and bridge deposits),
\* totalGiftedAmount equals the sum of the amounts of the gifts that exist
\* and are not yet claimed.
C21_TotalGiftedAmountCorrect ==
    version = "bridge" => totalGiftedAmount = UnclaimedSum

C21_Witness ==
    /\ version = "bridge"
    /\ lastCall.fn = "claim" /\ lastCall.revert = "ok"
    /\ \E c1, c2 \in ClaimIds :
          /\ claimed[c1]
          /\ bridgeGifts[c2] > 0 /\ ~claimed[c2]
          /\ totalGiftedAmount = bridgeGifts[c2]

\* C22: in the bridge-enabled contract createGiftFromBridge succeeds only
\* if the contract's token balance minus totalGiftedAmount is at least the
\* requested amount, and after every step (bridge deposits and competing
\* createGiftFromBridge calls included) the contract's balance is at least
\* totalGiftedAmount.
C22_GiftsBackedByDeposit ==
    [][version = "bridge" =>
          /\ contractBalance' >= totalGiftedAmount'
          /\ (lastCall' # lastCall /\ lastCall'.fn = "createGiftFromBridge"
              /\ lastCall'.revert = "ok") =>
                /\ contractBalance - totalGiftedAmount >= bridgeGifts'[lastCall'.claimId]
                /\ bridgeGifts'[lastCall'.claimId] > 0
                /\ contractBalance' = contractBalance]_vars

\* Two createGiftFromBridge calls compete for one deposit: the first took
\* it, the second is rejected.  (The sender has paid in as much as bob, who
\* never pays in: what the contract holds came from the bridge or was
\* claimed back.)
C22_Witness ==
    /\ version = "bridge"
    /\ lastCall.fn = "createGiftFromBridge"
    /\ lastCall.revert = "insufficient deposit"
    /\ totalGiftedAmount > 0
    /\ contractBalance = totalGiftedAmount
    /\ usdcBalance[GiftSender] = usdcBalance["bob"]

\* Sum of the simulated HyperCore balances.
HyperCoreSum == SumOver(Users, hyperCoreBalances)

OnlyRecipientNamed(claimSecret, to) ==
    \A q \in ReqIds :
       (txs[q].receipt # "none" /\ txs[q].claimSecret = claimSecret) => txs[q].to = to

\* C24: no front-running.  While a claim transaction is submitted and not
\* yet executed, no step pays the gift of its secret to a recipient other
\* than the one the transaction names (every transaction submitted for the
\* secret naming that recipient).
C24_NoFrontRunning ==
    [][\A r \in ReqIds :
          IF txs[r].receipt # "pending" THEN TRUE
          ELSE LET c == keccak256(txs[r].claimSecret) IN
               (/\ OnlyRecipientNamed(txs[r].claimSecret, txs[r].to)
                /\ ~claimed[c]
                /\ claimed'[c]) =>
                  usdcBalance'[txs[r].to] = usdcBalance[txs[r].to] + bridgeGifts[c]]_vars

\* The bytes32 values under which the deployed contract stores an entry or
\* has emitted an event.
LedgerKeys ==
    {c \in DOMAIN gifts : gifts[c] # NullGift}
    \cup {c \in DOMAIN events : events[c] # <<>>}
    \cup {c \in DOMAIN bridgeGifts : bridgeGifts[c] # 0}
    \cup {c \in DOMAIN claimed : claimed[c]}

C26_InvalidExpiryRejected ==
    [][version = "expiry" =>
          /\ \A c \in ClaimIds, a \in 1..MaxAmount, e \in 1..MaxTime :
                (gifts[c].amount = 0 /\ e <= now) =>
                   createGiftRevert(GiftSender, c, a, e) = "invalid expiry"
          /\ (lastCall' # lastCall /\ lastCall'.fn = "createGift"
              /\ lastCall'.revert = "invalid expiry") =>
                UNCHANGED <<gifts, usdcBalance, contractBalance, hyperCoreBalances, events>>
          /\ \A c \in ClaimIds :
                (gifts[c].amount = 0 /\ gifts'[c].amount # 0) =>
                   gifts'[c].expiry = 0 \/ gifts'[c].expiry > now]_vars

C26_Witness ==
    /\ version = "expiry"
    /\ lastCall.fn = "createGift"
    /\ lastCall.revert = "invalid expiry"
    /\ now > 1
    /\ gifts[lastCall.claimId].amount = 0
    /\ \E c \in ClaimIds : gifts[c].amount > 0 /\ gifts[c].expiry >= now

\* The failures of the ledger call that handleClaim answers, other than
\* this one.
OtherFailures(message) ==
    ({"invalid wallet", "gift not found", "already claimed", "expired"}
     \cup (RpcOutcomes \ {"sent"})) \ {message}

\* C27: when the contract rejects the claim as not found, already claimed
\* or expired, handleClaim answers the request at once, after that one
\* ledger call and with no transaction sent, and the answer is the one of
\* that failure (404, 409, and for expired an answer that no failure of
\* another kind gets).
C27_LedgerRejectionReported ==
    [][\A r \in ReqIds :
          LET revert == claimRevert(requests[r].claimSecret, requests[r].walletAddress) IN
          (/\ requests[r].pc = "calling"
           /\ requests'[r] # requests[r]
           /\ revert \in {"gift not found", "already claimed", "expired"}) =>
             /\ requests'[r].pc = "done"
             /\ txs'[r] = txs[r]
             /\ ledgerCalls'[requests[r].claimSecret] = ledgerCalls[requests[r].claimSecret] + 1
             /\ revert = "gift not found" => requests'[r].status = 404
             /\ revert = "already claimed" => requests'[r].status = 409
             /\ \A other \in OtherFailures(revert) :
                   requests'[r] # claimErrorResponse(other)]_vars

\* C28: every entry that was created has amount > 0; the amount, the sender
\* and the expiry of an entry never change after its creation; and once the
\* entry is claimed or refunded, no field of it changes again.  (In the
\* bridge-enabled contract: the amount of a gift and its claimed flag.)
C28_EntryImmutable ==
    [][\A c \in ClaimIds :
          /\ events'[c] # <<>> => gifts'[c].amount > 0
          /\ gifts[c].amount # 0 =>
                /\ gifts'[c].amount = gifts[c].amount
                /\ gifts'[c].sender = gifts[c].sender
                /\ gifts'[c].expiry = gifts[c].expiry
          /\ gifts[c].claimed => gifts'[c] = gifts[c]
          /\ bridgeGifts[c] # 0 => bridgeGifts'[c] = bridgeGifts[c]
          /\ claimed[c] => claimed'[c]]_vars

C28_Witness ==
    /\ version = "expiry"
    /\ lastCall.fn = "claim"
    /\ lastCall.revert = "already claimed"
    /\ Status(lastCall.claimId) = "claimed"
    /\ gifts[lastCall.claimId].amount = Last(events[lastCall.claimId]).amount
    /\ gifts[lastCall.claimId].expiry > 0

\* A claim of the entry with its secret is permitted now (to any wallet),
\* and a refund of it by its sender is.
ClaimPermitted(claimId) ==
    \E s \in Secrets :
       /\ keccak256(s) = claimId
       /\ \A w \in Users : claimRevert(s, w) = "ok"
RefundPermitted(claimId) == refundRevert(gifts[claimId].sender, claimId) = "ok"

\* C29: for a pending entry with non-zero expiry, at every time exactly one
\* of "claim is permitted" and "refund by the sender is permitted" holds:
\* claim up to and including now = expiry, refund after it.
C29_WindowsDisjointAndCovering ==
    \A c \in ClaimIds :
       (Status(c) = "pending" /\ gifts[c].expiry > 0) =>
          /\ ClaimPermitted(c) # RefundPermitted(c)
          /\ ClaimPermitted(c) = (now <= gifts[c].expiry)
          /\ RefundPermitted(c) = (now > gifts[c].expiry)

C29_Witness ==
    \E c1, c2 \in ClaimIds :
       /\ Status(c1) = "pending" /\ gifts[c1].expiry = now
       /\ ClaimPermitted(c1) /\ ~RefundPermitted(c1)
       /\ Status(c2) = "pending" /\ gifts[c2].expiry > 0 /\ gifts[c2].expiry < now
       /\ RefundPermitted(c2) /\ ~ClaimPermitted(c2)

\* C30: a rejected refund reports the first failing check in the order not
\* found, already claimed, not sender, no expiry set, not expired: an entry
\* that does not exist gives not found whoever calls; a resolved entry gives
\* already claimed, also to a caller who is not the sender; a pending entry
\* gives not sender to such a caller, also when its expiry is 0; the sender
\* gets no expiry set for expiry 0 and not expired up to the expiry.
C30_RefundErrorOrder ==
    [][(lastCall' # lastCall /\ lastCall'.fn = "refund") =>
          LET gift == gifts[lastCall'.claimId]
              caller == lastCall'.caller
              revert == lastCall'.revert IN
          /\ gift.amount = 0 => revert = "gift not found"
          /\ (gift.amount > 0 /\ gift.claimed) => revert = "already claimed"
          /\ (gift.amount > 0 /\ ~gift.claimed /\ gift.sender # caller) =>
                revert = "not sender"
          /\ (gift.amount > 0 /\ ~gift.claimed /\ gift.sender = caller /\ gift.expiry = 0) =>
                revert = "no expiry set"
          /\ (gift.amount > 0 /\ ~gift.claimed /\ gift.sender = caller
              /\ gift.expiry > 0 /\ now <= gift.expiry) =>
                revert = "not expired"
          /\ revert # "ok" => gifts' = gifts]_vars

\* A refund of a claimed entry by a caller who is not its sender has been
\* rejected, and a pending entry with expiry 0 is there for such a caller.
C30_Witness ==
    /\ lastCall.fn = "refund"
    /\ lastCall.revert = "already claimed"
    /\ lastCall.caller # gifts[lastCall.claimId].sender
    /\ Status(lastCall.claimId) = "claimed"
    /\ \E c \in ClaimIds :
          /\ Status(c) = "pending"
          /\ gifts[c].expiry = 0
          /\ refundRevert(lastCall.caller, c) = "not sender"

\* How a claim of the entry with its secret would end now, in the contract
\* deployed.
ClaimVerdict(claimId) ==
    {IF version = "expiry" THEN claimRevert(s, w) ELSE bridgeClaimRevert(s, w) :
        s \in {t \in Secrets : keccak256(t) = claimId}, w \in Users}

\* C31: entries are independent.  A call of createGift, createGiftFromBridge,
\* claim or refund about one claimId, accepted or rejected, leaves the
\* stored entry of every other claimId, its status view and the verdict a
\* claim of it would get as they were, in whatever order gifts are claimed.
C31_EntriesIndependent ==
    [][lastCall' # lastCall =>
          \A d \in ClaimIds \ {lastCall'.claimId} :
             /\ gifts'[d] = gifts[d]
             /\ events'[d] = events[d]
             /\ bridgeGifts'[d] = bridgeGifts[d]
             /\ claimed'[d] = claimed[d]
             /\ getGiftStatus(d)' = getGiftStatus(d)
             /\ ClaimVerdict(d)' = ClaimVerdict(d)]_vars

\* One entry has just been claimed; another is pending and a claim of it
\* would be accepted.
C31_Witness ==
    /\ lastCall.fn = "claim"
    /\ lastCall.revert = "ok"
    /\ \E d \in ClaimIds \ {lastCall.claimId} :
          /\ ClaimVerdict(d) = {"ok"}
          /\ ~EntryResolved(d)

\* C32: the lookup of a claimId answers not found exactly when no insert
\* for it has succeeded; from a successful insert on, every lookup returns
\* the amount and the sender address inserted, with a status that is one of
\* pending_bridge, creating_gift, completed, failed, claimed; and no handler
\* deletes or changes a record.
C32_LookupReturnsRecord ==
    [][\A c \in ClaimIds :
          /\ (handleGetGift(c, "ok").status = 404)' = (CreatesAnswered(c, 200) = {})'
          /\ \A r \in ReqIds :
                (/\ creates[r].pc = "inserting" /\ creates[r].claimId = c
                 /\ creates'[r].status = 200) =>
                   /\ handleGetGift(c, "ok")'.status = 200
                   /\ handleGetGift(c, "ok")'.data.amount = creates[r].amount
                   /\ handleGetGift(c, "ok")'.data.senderAddress = creates[r].senderAddress
          /\ db'[c] # NoRow =>
                field(handleGetGift(c, "ok")'.data, "status") \in GiftStatuses
          /\ db[c] # NoRow => db'[c] = db[c]]_vars

\* C33: in the bridge-enabled contract, every gift that exists and is
\* unclaimed is eventually claimed, claim attempts for each claimId being
\* weakly fair.
C33_GiftsEventuallyClaimed ==
    \A c \in ClaimIds : (bridgeGifts[c] > 0 /\ ~claimed[c]) ~> claimed[c]

\* Every claimId has had its gift, created from a bridge deposit or by
\* createGift, and every gift has been claimed.
C33_Witness ==
    /\ version = "bridge"
    /\ \A c \in ClaimIds : bridgeGifts[c] > 0 /\ claimed[c]
    /\ totalGiftedAmount = 0

\* A step list as a hook shows it at a terminal status: all steps
\* completed, or a step failed.
TerminalSteps(steps) ==
    \/ \A i \in 1..Len(steps) : steps[i].status = "completed"
    \/ \E i \in 1..Len(steps) : steps[i].status = "failed"

\* C34: once useTransactionStatus has reported done or failed, or
\* useGiftStatus completed or failed, the status and the step list the
\* hook reports never go back to a value that is not terminal, also when
\* the responses of overlapping polls arrive out of order.
C34_TerminalStatusSticks ==
    [][/\ txHook.status \in {"done", "failed"} =>
             /\ txHook'.status \in {"done", "failed"}
             /\ TerminalSteps(txHook'.steps)
       /\ giftHook.status \in {"completed", "failed"} =>
             /\ giftHook'.status \in {"completed", "failed"}
             /\ TerminalSteps(giftHook'.steps)]_vars

\* C35: for one monitored transaction or gift the hook calls onComplete at
\* most once, and never once it is cancelled (the cleanup of its effect has
\* run), in every order of the immediate poll, the interval polls and
\* their answers.
C35_OnCompleteAtMostOnce ==
    [][/\ txHook'.completions # txHook.completions =>
             txHook.completions = 0 /\ ~txHook.isCancelled
       /\ giftHook'.completions # giftHook.completions =>
             giftHook.completions = 0 /\ ~giftHook.isCancelled]_vars
====
